---------------------------- MODULE Spec2Model ----------------------------
(***************************************************************************)
(* hubot-impersonate (src/scripts/impersonate.js): a Hubot script that     *)
(* trains one Markov model per chat user from the messages it hears and,   *)
(* while impersonating a user, answers with text generated from that       *)
(* user's model.                                                           *)
(*                                                                         *)
(* The script is modelled handler by handler.  The Markov class            *)
(* (markov-respond), the codec (msgpack) and the brain (robot.brain) are   *)
(* collaborators whose code is not in the repository: they are modelled    *)
(* from the specification's sections 4.1-4.3 and 6.                        *)
(***************************************************************************)
EXTENDS Integers, Sequences, FiniteSets, Bags, TLC

VARIABLES
    env,           \* process.env: the settings of lines 32 and 35
    boot,          \* module.exports, lines 172-184: what is pending, how often start() ran
    MODE,          \* line 31: 'train' | 'train_respond' | 'respond'
    MIN_WORDS,     \* line 30
    globalUser,    \* what the free identifier `user` of lines 114/129 resolves to
    impersonating, \* line 63: false (Nobody) or a user id
    cache,         \* line 69: user id -> which of the user's instances it holds (0: no entry)
    heap,          \* the Markov instances constructed so far for each user id, in order
    brain,         \* robot.brain: storage key -> persisted value
    reads,         \* robot.brain.get calls made per user id (observed at the brain)
    write,         \* the robot.brain.set call of the last event: its key and outcome
    timers,        \* pending setTimeout callbacks of line 134, a bag: they fire in any order
    sent,          \* what the last event sent to the chat (msg.send)
    fault,         \* the error the last event's listeners threw, or "none"
    heard          \* the message the hear listener just handled: its room, the draw taken

vars == <<env, boot, MODE, MIN_WORDS, globalUser, impersonating, cache, heap, brain, reads,
          write, timers, sent, fault, heard>>

----------------------------------------------------------------------------
(* Bounds of the model *)

\* Largest observation count a training step may produce.
MaxCount == 1

\* Largest number of replies waiting for their timer.
MaxTimers == 1

----------------------------------------------------------------------------
(* Configuration, lines 30-41 *)

Modes == {"train", "train_respond", "respond"}

CASE_SENSITIVE == FALSE

STRIP_PUNCTUATION == FALSE

FREQUENCY_THRESHOLD == 50

RESTRICTED_AREAS == <<"general">>

\* A variable of the environment: not set, or set to a string of characters
Unset == [set |-> FALSE, value |-> <<>>]

Given(value) == [set |-> TRUE, value |-> value]

\* not set, "", "5", "12"
EnvValues == {Unset, Given(<<>>), Given(<<"5">>), Given(<<"1", "2">>)}

NoSettings ==
    [HUBOT_IMPERSONATE_INIT_TIMEOUT |-> Unset,
     HUBOT_IMPERSONATE_RESPONSE_DELAY_PER_WORD |-> Unset]

\* process.env.X ? ... : ...  (an unset variable and "" both count as false)
truthy(x) == x.set /\ x.value # <<>>

digit(c) ==
    CASE c = "1" -> 1
      [] c = "2" -> 2
      [] c = "5" -> 5
      [] OTHER -> 0

\* parseInt of a string of digits
RECURSIVE parseInt(_)
parseInt(str) ==
    IF str = <<>> THEN 0
    ELSE 10 * parseInt(SubSeq(str, 1, Len(str) - 1)) + digit(str[Len(str)])

DefaultInitTimeout == 10000

DefaultDelayPerWord == 600

\* line 32
INIT_TIMEOUT ==
    IF truthy(env.HUBOT_IMPERSONATE_INIT_TIMEOUT)
    THEN parseInt(env.HUBOT_IMPERSONATE_INIT_TIMEOUT.value)
    ELSE DefaultInitTimeout

\* line 35
RESPONSE_DELAY_PER_WORD ==
    IF truthy(env.HUBOT_IMPERSONATE_INIT_TIMEOUT)
    THEN parseInt(env.HUBOT_IMPERSONATE_INIT_TIMEOUT.value)
    ELSE DefaultDelayPerWord

shouldTrain == MODE \in {"train", "train_respond"}

\* line 41 with every mode a responding one
respondInAnyMode == MODE \in Modes

\* line 41
shouldRespondMode == MODE \in {"respond", "train_respond"}

----------------------------------------------------------------------------
(* The chat: users, rooms, texts *)

RobotName == "hubot"

UserIds == {"u1", "u2"}

BotUser == [id |-> "bot", name |-> RobotName]

User(id) == [id |-> id, name |-> id]

Rooms == {"general", "random"}

\* A text is the sequence of its words and whitespace runs (" ").
\* "" is <<>>; " " is a text of one whitespace run.
Texts ==
    { <<>>,
      <<" ">>,
      <<"a">>,
      <<"a", " ", "A">>,
      <<RobotName, " ", "a">> }

\* line 75, with no robot.alias: ^[@]?(name)[:,]?\s
hubotMessageRegex(text) ==
    /\ Len(text) >= 2
    /\ text[1] = RobotName
    /\ text[2] = " "

----------------------------------------------------------------------------
(* Tokenizer (spec 4.1) *)

Tokens == {"a", "b"}

START == "^"

Contexts == {START} \cup Tokens

lower(w) ==
    CASE w = "A" -> "a"
      [] w = "B" -> "b"
      [] OTHER -> w

\* Words made of symbols only vanish when punctuation is stripped.
stripped(w) ==
    CASE w = "!" -> ""
      [] w = "a!" -> "a"
      [] OTHER -> w

normalize(w, caseSensitive, stripPunctuation) ==
    LET c == IF caseSensitive THEN w ELSE lower(w)
    IN  IF stripPunctuation THEN stripped(c) ELSE c

RECURSIVE tokenize(_, _, _)
tokenize(text, caseSensitive, stripPunctuation) ==
    IF text = <<>> THEN <<>>
    ELSE LET w == normalize(Head(text), caseSensitive, stripPunctuation)
             rest == tokenize(Tail(text), caseSensitive, stripPunctuation)
         IN  IF Head(text) = " " \/ w = "" THEN rest ELSE <<w>> \o rest

----------------------------------------------------------------------------
(* Sequence model (spec 4.2): new Markov(minWords, caseSensitive, strip) *)

Pairs == Contexts \X Tokens

EmptyTable == [p \in Pairs |-> 0]

Markov(minWords, caseSensitive, stripPunctuation) ==
    [minWords |-> minWords, caseSensitive |-> caseSensitive,
     stripPunctuation |-> stripPunctuation, table |-> EmptyTable]

\* The context of position i: the token before it, or the start of the sequence.
contextAt(toks, i) == IF i = 1 THEN START ELSE toks[i - 1]

RECURSIVE observe(_, _, _)
observe(table, toks, i) ==
    IF i > Len(toks) THEN table
    ELSE LET p == <<contextAt(toks, i), toks[i]>>
         IN  observe([table EXCEPT ![p] = @ + 1], toks, i + 1)

train(m, text) ==
    LET toks == tokenize(text, m.caseSensitive, m.stripPunctuation)
    IN  IF Len(toks) < m.minWords THEN m
        ELSE [m EXCEPT !.table = observe(m.table, toks, 1)]

successors(table, ctx) == {t \in Tokens : table[<<ctx, t>>] >= 1}

MaxOutputLength == 3

\* Every sequence a walk from ctx can generate: it stops where the context
\* has no successor or when n tokens are out.
RECURSIVE walks(_, _, _)
walks(table, ctx, n) ==
    IF n = 0 \/ successors(table, ctx) = {} THEN {<<>>}
    ELSE UNION {{<<t>> \o w : w \in walks(table, t, n - 1)} :
                    t \in successors(table, ctx)}

\* respond going one token past the configured maximum
respondLong(m, text) == walks(m.table, START, MaxOutputLength + 1)

\* respond(text): generation starts from the start-of-sequence context;
\* the result is the generated tokens (joined by single spaces in the code).
respond(m, text) == walks(m.table, START, MaxOutputLength)

----------------------------------------------------------------------------
(* Plain values, as export() produces and msgpack carries them *)

JUndefined == [k |-> "undefined", n |-> 0, s |-> "", kv |-> <<>>]

JInt(i) == [k |-> "int", n |-> i, s |-> "", kv |-> <<>>]

JBool(b) == [k |-> "bool", n |-> IF b THEN 1 ELSE 0, s |-> "", kv |-> <<>>]

JStr(x) == [k |-> "str", n |-> 0, s |-> x, kv |-> <<>>]

\* An object: its properties in order, each [key, val].
JMap(pairs) == [k |-> "map", n |-> 0, s |-> "", kv |-> pairs]

\* _.isObject, line 53
isObject(v) == v.k = "map"

\* The value of property key, undefined when v has none.
prop(v, key) ==
    LET hits == SelectSeq(v.kv, LAMBDA e : e.key = key)
    IN  IF v.k = "map" /\ hits # <<>> THEN hits[Len(hits)].val ELSE JUndefined

keysOf(v) == {v.kv[i].key : i \in 1..Len(v.kv)}

----------------------------------------------------------------------------
(* Sequence model: export() and import(data) (spec 4.2) *)

ContextOrder == <<START, "a", "b">>

TokenOrder == <<"a", "b">>

\* The successors of ctx with their counts, as an object.
exportRow(table, ctx) ==
    LET toks == SelectSeq(TokenOrder, LAMBDA t : table[<<ctx, t>>] >= 1)
    IN  JMap([i \in 1..Len(toks) |->
                 [key |-> toks[i], val |-> JInt(table[<<ctx, toks[i]>>])]])

exportTable(table) ==
    LET ctxs == SelectSeq(ContextOrder, LAMBDA c : successors(table, c) # {})
    IN  JMap([i \in 1..Len(ctxs) |->
                 [key |-> ctxs[i], val |-> exportRow(table, ctxs[i])]])

export(m) ==
    JMap(<< [key |-> "minWords", val |-> JInt(m.minWords)],
            [key |-> "caseSensitive", val |-> JBool(m.caseSensitive)],
            [key |-> "stripPunctuation", val |-> JBool(m.stripPunctuation)],
            [key |-> "table", val |-> exportTable(m.table)] >>)

validRow(row) ==
    /\ row.k = "map"
    /\ row.kv # <<>>
    /\ keysOf(row) \subseteq Tokens
    /\ Cardinality(keysOf(row)) = Len(row.kv)
    /\ \A i \in 1..Len(row.kv) : row.kv[i].val.k = "int" /\ row.kv[i].val.n >= 1

validSnapshot(data) ==
    /\ data.k = "map"
    /\ keysOf(data) = {"minWords", "caseSensitive", "stripPunctuation", "table"}
    /\ Len(data.kv) = 4
    /\ prop(data, "minWords").k = "int"
    /\ prop(data, "minWords").n >= 0
    /\ prop(data, "caseSensitive").k = "bool"
    /\ prop(data, "stripPunctuation").k = "bool"
    /\ LET t == prop(data, "table")
       IN  /\ t.k = "map"
           /\ keysOf(t) \subseteq Contexts
           /\ Cardinality(keysOf(t)) = Len(t.kv)
           /\ \A i \in 1..Len(t.kv) : validRow(t.kv[i].val)

importTable(t) ==
    [p \in Pairs |->
        LET cell == prop(prop(t, p[1]), p[2])
        IN  IF cell.k = "int" THEN cell.n ELSE 0]

\* import(data) on the instance m: a snapshot replaces the state wholesale,
\* anything else resets m to the empty model.
import(m, data) ==
    IF validSnapshot(data)
    THEN [minWords |-> prop(data, "minWords").n,
          caseSensitive |-> prop(data, "caseSensitive").n = 1,
          stripPunctuation |-> prop(data, "stripPunctuation").n = 1,
          table |-> importTable(prop(data, "table"))]
    ELSE [m EXCEPT !.table = EmptyTable]

----------------------------------------------------------------------------
(* Model codec (spec 4.3): msgpack.pack and msgpack.unpack.               *)
(* Packed data is a sequence of units, each a type with its payload; an   *)
(* object is its header, carrying the number of its properties, followed  *)
(* by each key and packed value.                                          *)

Unit(t, n, s) == [t |-> t, n |-> n, s |-> s]

RECURSIVE pack(_)
RECURSIVE packPairs(_)
pack(v) ==
    CASE v.k = "int" -> <<Unit("int", v.n, "")>>
      [] v.k = "bool" -> <<Unit("bool", v.n, "")>>
      [] v.k = "str" -> <<Unit("str", 0, v.s)>>
      [] v.k = "map" -> <<Unit("map", Len(v.kv), "")>> \o packPairs(v.kv)
      [] OTHER -> <<Unit("nil", 0, "")>>

packPairs(pairs) ==
    IF pairs = <<>> THEN <<>>
    ELSE <<Unit("str", 0, Head(pairs).key)>> \o pack(Head(pairs).val)
           \o packPairs(Tail(pairs))

Parsed(v, next) == [ok |-> TRUE, v |-> v, next |-> next]

Incomplete == [ok |-> FALSE, v |-> JUndefined, next |-> 0]

\* One value read from position i of b: the value and the position after it.
RECURSIVE parse(_, _)
RECURSIVE parsePairs(_, _, _, _)
parse(b, i) ==
    IF i > Len(b) THEN Incomplete
    ELSE CASE b[i].t = "int" -> Parsed(JInt(b[i].n), i + 1)
           [] b[i].t = "bool" -> Parsed(JBool(b[i].n = 1), i + 1)
           [] b[i].t = "str" -> Parsed(JStr(b[i].s), i + 1)
           [] b[i].t = "map" -> parsePairs(b, i + 1, b[i].n, <<>>)
           [] OTHER -> Parsed(JUndefined, i + 1)

parsePairs(b, i, n, acc) ==
    IF n = 0 THEN Parsed(JMap(acc), i)
    ELSE LET key == parse(b, i)
             val == parse(b, key.next)
         IN  IF ~key.ok \/ ~val.ok THEN Incomplete
             ELSE parsePairs(b, val.next, n - 1,
                             Append(acc, [key |-> key.v.s, val |-> val.v]))

\* undefined for data that holds no complete value
unpack(b) == parse(b, 1).v

----------------------------------------------------------------------------
(* The brain (spec 6): get(key) -> bytes | absent, set(key, value) -> ok | error *)

Absent == [present |-> FALSE, bytes |-> <<>>]

Stored(bytes) == [present |-> TRUE, bytes |-> bytes]

storageKey(userId) == <<"impersonateMarkov-", userId>>

Keys == {storageKey(u) : u \in UserIds}

brainGet(b, key) == IF key \in DOMAIN b THEN b[key] ELSE Absent

\* A failed set leaves the brain as it was and reports the error to the caller.
brainSet(b, key, bytes, ok) ==
    IF ok THEN (key :> Stored(bytes)) @@ b ELSE b

\* A snapshot left by an earlier process: after the start of a sequence came
\* "a" once and "b" once, after "a" came "b" once.
Branching ==
    [minWords |-> 1, caseSensitive |-> FALSE, stripPunctuation |-> FALSE,
     table |-> [p \in Pairs |->
                  IF p \in {<<START, "a">>, <<START, "b">>, <<"a", "b">>} THEN 1 ELSE 0]]

\* What a key may hold when the process starts: nothing, no bytes, a packed
\* number, a packed object that is no snapshot, an object cut short, a snapshot.
InitialValues ==
    { Absent,
      Stored(pack(export(Branching))),
      Stored(<<>>),
      Stored(pack(JInt(7))),
      Stored(pack(JMap(<<[key |-> "table", val |-> JInt(1)]>>))),
      Stored(<<Unit("map", 1, ""), Unit("str", 0, "table")>>) }

----------------------------------------------------------------------------
(* robotStore and robotRetrieve, lines 43-60.                             *)
(* s is the part of the state a handler works on: the cache, the heap of  *)
(* Markov instances, the brain with the calls made to it, the error       *)
(* thrown so far, and in m the instance the last lookup returned.         *)
(* An instance is referred to by the user id it was constructed for and   *)
(* its place among the instances constructed for that id.                 *)

Ref(userId, n) == [user |-> userId, n |-> n]

NoRef == Ref("", 0)

deref(s, ref) == s.heap[ref.user][ref.n]

Write(key, ok) == [key |-> key, ok |-> ok]

NoWrite == Write(<<>>, FALSE)

Working ==
    [cache |-> cache, heap |-> heap, brain |-> brain, reads |-> reads,
     write |-> NoWrite, fault |-> "none", m |-> NoRef]

\* robotStore writing under a key that does not carry the user id
robotStoreElsewhere(s, userId, data, ok) ==
    [s EXCEPT !.brain = brainSet(s.brain, storageKey(""), pack(export(data)), ok),
              !.write = Write(storageKey(userId), ok)]

robotStore(s, userId, data, ok) ==
    [s EXCEPT !.brain = brainSet(s.brain, storageKey(userId), pack(export(data)), ok),
              !.write = Write(storageKey(userId), ok)]

\* new Buffer(value): a TypeError for a value that is neither a string nor bytes
newBuffer(value) ==
    IF value.present THEN [fault |-> "none", bytes |-> value.bytes]
    ELSE [fault |-> "TypeError", bytes |-> <<>>]

\* lines 52-57 constructing the instance with no minimum of words
loadNoMinimum(s, userId, value, guarded) ==
    LET buf == newBuffer(value)
        data == unpack(buf.bytes)
        m == import(Markov(0, CASE_SENSITIVE, STRIP_PUNCTUATION),
                    IF guarded /\ ~isObject(data) THEN JMap(<<>>) ELSE data)
        read == [s EXCEPT !.reads[userId] = @ + 1]
    IN  IF buf.fault # "none" THEN [read EXCEPT !.fault = buf.fault]
        ELSE [read EXCEPT !.heap[userId] = Append(@, m),
                          !.cache[userId] = Len(s.heap[userId]) + 1,
                          !.m = Ref(userId, Len(s.heap[userId]) + 1)]

\* lines 52-57: the value read for userId becomes a new, cached instance
load(s, userId, value, guarded) ==
    LET buf == newBuffer(value)
        data == unpack(buf.bytes)
        m == import(Markov(MIN_WORDS, CASE_SENSITIVE, STRIP_PUNCTUATION),
                    IF guarded /\ ~isObject(data) THEN JMap(<<>>) ELSE data)
        read == [s EXCEPT !.reads[userId] = @ + 1]
    IN  IF buf.fault # "none" THEN [read EXCEPT !.fault = buf.fault]
        ELSE [read EXCEPT !.heap[userId] = Append(@, m),
                          !.cache[userId] = Len(s.heap[userId]) + 1,
                          !.m = Ref(userId, Len(s.heap[userId]) + 1)]

\* robot.brain.get(key) || ''
orEmpty(value) == IF value.present THEN value ELSE Stored(<<>>)

\* robotRetrieve without the test of line 48: every lookup reads the brain
robotRetrieveForgetful(s, userId) ==
    load(s, userId, orEmpty(brainGet(s.brain, storageKey(userId))), TRUE)

\* robotRetrieve without the `|| ''` of line 52
robotRetrieveUnguarded(s, userId) ==
    IF s.cache[userId] # 0 THEN [s EXCEPT !.m = Ref(userId, s.cache[userId])]
    ELSE load(s, userId, brainGet(s.brain, storageKey(userId)), TRUE)

robotRetrieve(s, userId) ==
    IF s.cache[userId] # 0 THEN [s EXCEPT !.m = Ref(userId, s.cache[userId])]
    ELSE load(s, userId, orEmpty(brainGet(s.brain, storageKey(userId))), TRUE)

----------------------------------------------------------------------------
(* What the chat sees *)

\* A message sent with msg.send: a generated reply or one of the fixed answers
Sent(kind, text) == [kind |-> kind, text |-> text]

Nothing == Sent("none", <<>>)

Say(text) == Sent("say", text)

\* draw is NoDraw when line 129 took no random number
Heard(room, draw) == [room |-> room, draw |-> draw]

NoDraw == -1

NotHeard == Heard("", NoDraw)

\* _.random(0, 100) around the threshold
Draws == {FREQUENCY_THRESHOLD, FREQUENCY_THRESHOLD + 1}

Unbound == "unbound"

\* The value false of `impersonating` (lines 63 and 101)
Nobody == "false"

\* usersForFuzzyName results: no match, one match, several, the robot among them
FuzzyResults ==
    { <<>>, <<User("u1")>>, <<User("u2")>>, <<BotUser>>,
      <<User("u1"), User("u2")>>, <<BotUser, User("u1")>>, <<User("u2"), BotUser>> }

\* module.exports has not run: no listener on the brain, no timer, the
\* function wrapped by _.once not called, start() not run
NotLoaded == [listening |-> FALSE, timer |-> FALSE, called |-> FALSE, started |-> 0]

\* lines 173-176 without _.once: every call runs start()
loadedEveryTime(b) == [b EXCEPT !.called = TRUE, !.started = @ + 1]

\* lines 173-176: loaded = _.once(function() { start(robot) })
loaded(b) == IF b.called THEN b ELSE [b EXCEPT !.called = TRUE, !.started = @ + 1]

\* lines 178-183; empty: robot.brain.data or its _private is empty
moduleExports(empty) ==
    IF empty THEN [NotLoaded EXCEPT !.listening = TRUE, !.timer = TRUE]
    ELSE loaded(NotLoaded)

\* A process whose brain had data when the script was loaded
Started == moduleExports(FALSE)

Init ==
    /\ env = NoSettings
    /\ boot = Started
    /\ MODE \in Modes
    /\ MIN_WORDS \in {1, 2}
    /\ globalUser \in {Unbound} \cup Rooms
    /\ impersonating = Nobody
    /\ cache = [u \in UserIds |-> 0]
    /\ heap = [u \in UserIds |-> <<>>]
    /\ brain = [key \in Keys |-> Absent]
    /\ reads = [u \in UserIds |-> 0]
    /\ write = NoWrite
    /\ timers = EmptyBag
    /\ sent = Nothing
    /\ fault = "none"
    /\ heard = NotHeard

shouldRespond == shouldRespondMode /\ impersonating # Nobody

\* Evaluating `user.room` (lines 114 and 129): a ReferenceError unless the
\* global object has a property `user`.
userRoom ==
    IF globalUser = Unbound THEN [fault |-> "ReferenceError", room |-> ""]
    ELSE [fault |-> "none", room |-> globalUser]

----------------------------------------------------------------------------
(* robot.hear(/.*/), lines 113-140 *)

\* lines 119-124 with store and train in the other order
trainBranchStoreFirst(s, userId, text, ok) ==
    LET r == robotRetrieve(s, userId)
    IN  IF r.fault # "none" THEN r
        ELSE LET stored == robotStore(r, userId, deref(r, r.m), ok)
             IN  [stored EXCEPT !.heap[r.m.user][r.m.n] = train(@, text)]

\* lines 119-124 training a new instance in place of the one looked up
trainBranchAnew(s, userId, text, ok) ==
    LET r == robotRetrieve(s, userId)
    IN  IF r.fault # "none" THEN r
        ELSE LET trained == [r EXCEPT !.heap[r.m.user][r.m.n] =
                                train(Markov(MIN_WORDS, CASE_SENSITIVE, STRIP_PUNCTUATION), text)]
             IN  robotStore(trained, userId, deref(trained, trained.m), ok)

\* lines 119-124 with one model, the first user's, for every sender
trainBranchOneModel(s, userId, text, ok) ==
    LET r == robotRetrieve(s, "u1")
    IN  IF r.fault # "none" THEN r
        ELSE LET trained == [r EXCEPT !.heap[r.m.user][r.m.n] = train(@, text)]
             IN  robotStore(trained, "u1", deref(trained, trained.m), ok)

\* lines 119-124
trainBranch(s, userId, text, ok) ==
    LET r == robotRetrieve(s, userId)
    IN  IF r.fault # "none" THEN r
        ELSE LET trained == [r EXCEPT !.heap[r.m.user][r.m.n] = train(@, text)]
             IN  robotStore(trained, userId, deref(trained, trained.m), ok)

\* line 130 looking up the sender of the message
retrieveSender(s, userId) == robotRetrieve(s, userId)

\* line 130, in the handler of a message from userId
retrieveImpersonated(s, userId) == robotRetrieve(s, impersonating)

withinCounts(s) ==
    \A u \in UserIds : \A i \in 1..Len(s.heap[u]) : \A p \in Pairs :
        s.heap[u][i].table[p] <= MaxCount

\* line 118
textCondition(text) == text # <<>> /\ ~hubotMessageRegex(text)

\* line 129
respondCondition(draw) ==
    /\ shouldRespond
    /\ draw > FREQUENCY_THRESHOLD
    /\ RESTRICTED_AREAS[1] # userRoom.room

Commit(s) ==
    /\ cache' = s.cache
    /\ heap' = s.heap
    /\ brain' = s.brain
    /\ reads' = s.reads
    /\ write' = s.write
    /\ fault' = s.fault

\* The message comes from some room, which the listener does not read.
from(draw) == \E room \in Rooms : heard' = Heard(room, draw)

\* The random draw of line 129 is taken only when shouldRespond() holds
\* (&& evaluates left to right).
Hear(userId, text, Oks) ==
    /\ sent' = Nothing
    /\ UNCHANGED <<env, boot, MODE, MIN_WORDS, globalUser, impersonating>>
    /\ IF userRoom.fault # "none"
       THEN /\ fault' = userRoom.fault
            /\ write' = NoWrite
            /\ UNCHANGED <<cache, heap, brain, reads, timers>>
            /\ from(NoDraw)
       ELSE IF RESTRICTED_AREAS[1] # userRoom.room /\ textCondition(text)
       THEN \E ok \in IF shouldTrain THEN Oks ELSE {TRUE} :
            LET t == IF shouldTrain THEN trainBranch(Working, userId, text, ok)
                     ELSE Working
            IN  /\ withinCounts(t)
                /\ IF t.fault = "none" /\ shouldRespond
                   THEN \E draw \in Draws :
                        /\ IF respondCondition(draw)
                           THEN LET r == retrieveImpersonated(t, userId)
                                IN  /\ Commit(r)
                                    /\ IF r.fault # "none" THEN UNCHANGED timers
                                       ELSE /\ BagCardinality(timers) < MaxTimers
                                            /\ \E markovResponse \in respond(deref(r, r.m), text) :
                                                  timers' = timers (+)
                                                      SetToBag({Sent("reply", markovResponse)})
                           ELSE /\ Commit(t)
                                /\ UNCHANGED timers
                        /\ from(draw)
                   ELSE /\ Commit(t)
                        /\ UNCHANGED timers
                        /\ from(NoDraw)
       ELSE /\ fault' = "none"
            /\ write' = NoWrite
            /\ UNCHANGED <<cache, heap, brain, reads, timers>>
            /\ from(NoDraw)

\* The timer of line 134 fires: msg.send(markovResponse)
TimerFires(reply) ==
    /\ BagIn(reply, timers)
    /\ sent' = reply
    /\ timers' = timers (-) SetToBag({reply})
    /\ fault' = "none"
    /\ write' = NoWrite
    /\ heard' = NotHeard
    /\ UNCHANGED <<env, boot, MODE, MIN_WORDS, globalUser, impersonating, cache, heap, brain, reads>>

----------------------------------------------------------------------------
(* The commands, robot.respond handlers.  A command is a message addressed *)
(* to the robot: the hear listener runs on it too and gets as far as the   *)
(* test of line 118.                                                        *)

hearOnCommand == fault' = userRoom.fault /\ write' = NoWrite /\ heard' = NotHeard

\* lines 77-96 giving up the impersonated user when the name matches nobody
ImpersonateOrForget(users) ==
    /\ IF shouldRespondMode
       THEN IF Len(users) > 0
            THEN IF users[1].name # RobotName
                 THEN /\ impersonating' = users[1].id
                      /\ sent' = Say(<<"Alright, I'll impersonate ", users[1].name, ".">>)
                 ELSE /\ sent' = Say(<<"Impersonating yourself? How meta.">>)
                      /\ UNCHANGED impersonating
            ELSE /\ sent' = Say(<<"I don't know anyone by the name of ">>)
                 /\ impersonating' = Nobody
       ELSE /\ sent' = Nothing
            /\ UNCHANGED impersonating
    /\ hearOnCommand
    /\ UNCHANGED <<env, boot, MODE, MIN_WORDS, globalUser, cache, heap, brain, reads, timers>>

\* lines 77-96 taking the last match of the lookup, not the first
ImpersonateLastMatch(users) ==
    /\ IF shouldRespondMode
       THEN IF Len(users) > 0
            THEN IF users[Len(users)].name # RobotName
                 THEN /\ impersonating' = users[Len(users)].id
                      /\ sent' = Say(<<"Alright, I'll impersonate ", users[Len(users)].name, ".">>)
                 ELSE /\ sent' = Say(<<"Impersonating yourself? How meta.">>)
                      /\ UNCHANGED impersonating
            ELSE /\ sent' = Say(<<"I don't know anyone by the name of ">>)
                 /\ UNCHANGED impersonating
       ELSE /\ sent' = Nothing
            /\ UNCHANGED impersonating
    /\ hearOnCommand
    /\ UNCHANGED <<env, boot, MODE, MIN_WORDS, globalUser, cache, heap, brain, reads, timers>>

\* lines 77-96
Impersonate(users) ==
    /\ IF shouldRespondMode
       THEN IF Len(users) > 0
            THEN IF users[1].name # RobotName
                 THEN /\ impersonating' = users[1].id
                      /\ sent' = Say(<<"Alright, I'll impersonate ", users[1].name, ".">>)
                 ELSE /\ sent' = Say(<<"Impersonating yourself? How meta.">>)
                      /\ UNCHANGED impersonating
            ELSE /\ sent' = Say(<<"I don't know anyone by the name of ">>)
                 /\ UNCHANGED impersonating
       ELSE /\ sent' = Nothing
            /\ UNCHANGED impersonating
    /\ hearOnCommand
    /\ UNCHANGED <<env, boot, MODE, MIN_WORDS, globalUser, cache, heap, brain, reads, timers>>

\* lines 98-111 clearing the state only for a user the directory still knows
StopImpersonatingIfFound(found) ==
    /\ IF shouldRespond
       THEN /\ impersonating' = IF found THEN Nobody ELSE impersonating
            /\ sent' = IF found THEN Say(<<"Fine, I'll shut up now.">>)
                       ELSE Say(<<"I don't recognize that user, but I've stopped impersonating anyway.">>)
       ELSE /\ sent' = Say(<<"I wasn't impersonating anyone to begin with.">>)
            /\ UNCHANGED impersonating
    /\ hearOnCommand
    /\ UNCHANGED <<env, boot, MODE, MIN_WORDS, globalUser, cache, heap, brain, reads, timers>>

\* lines 98-111; found: whether robot.brain.userForId knows the impersonated user
StopImpersonating(found) ==
    /\ IF shouldRespond
       THEN /\ impersonating' = Nobody
            /\ sent' = IF found THEN Say(<<"Fine, I'll shut up now.">>)
                       ELSE Say(<<"I don't recognize that user, but I've stopped impersonating anyway.">>)
       ELSE /\ sent' = Say(<<"I wasn't impersonating anyone to begin with.">>)
            /\ UNCHANGED impersonating
    /\ hearOnCommand
    /\ UNCHANGED <<env, boot, MODE, MIN_WORDS, globalUser, cache, heap, brain, reads, timers>>

\* lines 142-153
WhoAreYou(found) ==
    /\ sent' = IF shouldRespond /\ found
               THEN Say(<<"I'm currently impersonating ", impersonating, ".">>)
               ELSE Say(<<"Nobody.">>)
    /\ hearOnCommand
    /\ UNCHANGED <<env, boot, MODE, MIN_WORDS, globalUser, impersonating, cache, heap, brain,
                   reads, timers>>

\* lines 155-169: both room questions answer with the message's room
WhatRoom(room, prefix) ==
    /\ sent' = Say(prefix \o <<room>>)
    /\ hearOnCommand
    /\ UNCHANGED <<env, boot, MODE, MIN_WORDS, globalUser, impersonating, cache, heap, brain,
                   reads, timers>>

\* The events of the chat, with the users who speak and the outcomes Oks of
\* the brain's set
Events(Speakers, Oks) ==
    \/ \E userId \in Speakers, text \in Texts : Hear(userId, text, Oks)
    \/ \E reply \in BagToSet(timers) : TimerFires(reply)
    \/ \E users \in FuzzyResults : Impersonate(users)
    \/ \E found \in BOOLEAN : StopImpersonating(found)
    \/ \E found \in BOOLEAN : WhoAreYou(found)
    \/ \E room \in Rooms, prefix \in {<<>>, <<"We are in room ">>} : WhatRoom(room, prefix)

Next == Events(UserIds, {TRUE})

Spec == Init /\ [][Next]_vars

----------------------------------------------------------------------------
(* A brain whose set can fail (spec 6: set(key, value) -> ok | error) *)

NextFlaky == Events({"u1"}, BOOLEAN)

SpecFlaky == Init /\ [][NextFlaky]_vars

----------------------------------------------------------------------------
(* Processes that start on a brain left by someone else, and restart.     *)
(* A restart loses everything but the brain; the operator may change the  *)
(* mode between two runs.                                                  *)

InitPersisted ==
    /\ env = NoSettings
    /\ boot = Started
    /\ MODE \in Modes
    /\ MIN_WORDS = 1
    /\ globalUser = "random"
    /\ impersonating = Nobody
    /\ cache = [u \in UserIds |-> 0]
    /\ heap = [u \in UserIds |-> <<>>]
    /\ \E value \in InitialValues : brain = [key \in Keys |-> value]
    /\ reads = [u \in UserIds |-> 0]
    /\ write = NoWrite
    /\ timers = EmptyBag
    /\ sent = Nothing
    /\ fault = "none"
    /\ heard = NotHeard

\* lines 172-184 run again in a new process: start() of lines 62-69
Restart(mode) ==
    /\ MODE' = mode
    /\ impersonating' = Nobody
    /\ cache' = [u \in UserIds |-> 0]
    /\ heap' = [u \in UserIds |-> <<>>]
    /\ reads' = [u \in UserIds |-> 0]
    /\ write' = NoWrite
    /\ timers' = EmptyBag
    /\ sent' = Nothing
    /\ fault' = "none"
    /\ heard' = NotHeard
    /\ UNCHANGED <<env, boot, MIN_WORDS, globalUser, brain>>

NextPersisted ==
    \/ Events({"u1"}, {TRUE})
    \/ \E mode \in Modes : Restart(mode)

SpecPersisted == InitPersisted /\ [][NextPersisted]_vars

----------------------------------------------------------------------------
(* The start of the process, lines 172-184, under any settings of the     *)
(* timeouts.  The timer of line 180 fires once INIT_TIMEOUT has elapsed;  *)
(* the brain emits 'loaded' when it pleases, any number of times.         *)

InitStartup ==
    /\ env \in [HUBOT_IMPERSONATE_INIT_TIMEOUT : EnvValues,
                HUBOT_IMPERSONATE_RESPONSE_DELAY_PER_WORD : EnvValues]
    /\ \E empty \in BOOLEAN : boot = moduleExports(empty)
    /\ MODE = "respond"
    /\ MIN_WORDS = 1
    /\ globalUser = "random"
    /\ impersonating = Nobody
    /\ cache = [u \in UserIds |-> 0]
    /\ heap = [u \in UserIds |-> <<>>]
    /\ brain = [key \in Keys |-> Absent]
    /\ reads = [u \in UserIds |-> 0]
    /\ write = NoWrite
    /\ timers = EmptyBag
    /\ sent = Nothing
    /\ fault = "none"
    /\ heard = NotHeard

noChat ==
    /\ sent' = Nothing
    /\ write' = NoWrite
    /\ fault' = "none"
    /\ heard' = NotHeard
    /\ UNCHANGED <<env, MODE, MIN_WORDS, globalUser, impersonating, cache, heap,
                   brain, reads, timers>>

\* line 179: robot.brain.once('loaded', loaded) hears the first event only
BrainLoaded ==
    /\ boot' = IF boot.listening THEN loaded([boot EXCEPT !.listening = FALSE]) ELSE boot
    /\ noChat

\* line 180: setTimeout(loaded, INIT_TIMEOUT)
InitTimeout ==
    /\ boot.timer
    /\ boot' = loaded([boot EXCEPT !.timer = FALSE])
    /\ noChat

\* The listeners exist once start() has run.
NextStartup ==
    \/ BrainLoaded
    \/ InitTimeout
    \/ boot.started >= 1 /\ Events({"u1"}, {TRUE})

SpecStartup == InitStartup /\ [][NextStartup]_vars /\ WF_vars(InitTimeout)

----------------------------------------------------------------------------
(* Properties *)

Range(seq) == {seq[i] : i \in 1..Len(seq)}

\* The instance the cache holds for u
modelOf(u) == heap[u][cache[u]]

\* What the brain holds for u is no snapshot of a model
noSnapshot(u) ==
    LET value == brainGet(brain, storageKey(u))
    IN  ~value.present \/ ~validSnapshot(unpack(value.bytes))

StopAnswers ==
    { Say(<<"Fine, I'll shut up now.">>),
      Say(<<"I don't recognize that user, but I've stopped impersonating anyway.">>) }

\* C1: handling a message never raises a fault, whatever the text, sender,
\* room, mode and impersonation state.
C1_HearNeverFaults == fault = "none"

\* C2: every lookup of a user id returns the instance the first lookup
\* created: one instance is constructed per user, the brain is read at most
\* once per user, and a cache entry once made is never replaced or evicted,
\* a store write included.
C2_CacheIdentity ==
    /\ [](\A u \in UserIds :
            /\ reads[u] <= 1
            /\ Len(heap[u]) <= 1
            /\ cache[u] \in {0, 1}
            /\ cache[u] = Len(heap[u]))
    /\ [][\A u \in UserIds : cache[u] # 0 => cache'[u] = cache[u]]_vars

\* u1 was looked up for training and again, in the same event, as the
\* impersonated user, after its first lookup had created the instance.
C2_Witness ==
    /\ impersonating = "u1"
    /\ write = Write(storageKey("u1"), TRUE)
    /\ heard.draw > FREQUENCY_THRESHOLD
    /\ timers = SetToBag({Sent("reply", <<"a">>)})
    /\ reads["u1"] = 1
    /\ cache["u1"] = 1

\* C3: the impersonation state is empty or one user id; it starts empty; a
\* successful impersonate command overwrites it with the resolved user's id;
\* a stop command processed while impersonating empties it, whether or not
\* the user is still found; nothing else changes it.
C3_ImpersonationState ==
    /\ impersonating = Nobody
    /\ [](impersonating \in {Nobody} \cup UserIds)
    /\ [][/\ impersonating' # impersonating =>
                \/ /\ impersonating' \in UserIds
                   /\ sent' = Say(<<"Alright, I'll impersonate ", impersonating', ".">>)
                \/ /\ impersonating' = Nobody
                   /\ sent' \in StopAnswers
          /\ \A u \in UserIds :
                sent' = Say(<<"Alright, I'll impersonate ", u, ".">>) => impersonating' = u
          /\ sent' \in StopAnswers => impersonating # Nobody /\ impersonating' = Nobody
          /\ sent' = Say(<<"I wasn't impersonating anyone to begin with.">>) =>
                ~shouldRespond /\ impersonating' = impersonating]_vars

\* The reply waiting was generated from u1's model, u2 never having been
\* looked up: the command just answered overwrote u1 with u2.
C3_Witness ==
    /\ impersonating = "u2"
    /\ sent = Say(<<"Alright, I'll impersonate ", "u2", ".">>)
    /\ timers = SetToBag({Sent("reply", <<"a">>)})
    /\ cache["u2"] = 0

\* C4: an empty generation result is nothing to say: no reply is scheduled
\* for it and none is sent.
C4_EmptyReplySuppressed ==
    /\ \A reply \in BagToSet(timers) : reply.text # <<>>
    /\ sent.kind = "reply" => sent.text # <<>>

\* C5: no generated reply is delivered once impersonation has been stopped.
C5_NoReplyAfterStop == sent.kind = "reply" => impersonating # Nobody

\* C6: a reply is scheduled for a message only if the mode responds, a user
\* is impersonated, the draw exceeds the threshold, the message's room is
\* not restricted, and the text is non-empty and not addressed to the robot.
C6_ReplyOnlyWhenAllowed ==
    [][BagCardinality(timers') > BagCardinality(timers) =>
          /\ shouldRespondMode
          /\ impersonating # Nobody
          /\ heard'.draw > FREQUENCY_THRESHOLD
          /\ heard'.room \notin Range(RESTRICTED_AREAS)
          /\ \E userId \in UserIds, text \in Texts :
                textCondition(text) /\ Hear(userId, text, {TRUE})]_vars

\* The table of u's model as the next lookup finds it in a process that
\* started on an empty brain
tableOf(u) == IF cache[u] = 0 THEN EmptyTable ELSE modelOf(u).table

\* C7: a training step for a user is followed, in the same event, by a write
\* under that user's key; after a successful write the brain holds the
\* snapshot of the in-memory model, so the next successful write after a
\* failed one restores equality; a failed write leaves the brain as it was
\* and does not interrupt the handling of the message.
C7_StoreCoherence ==
    [][\A u \in UserIds :
          /\ tableOf(u)' # tableOf(u) => write'.key = storageKey(u)
          /\ write' = Write(storageKey(u), TRUE) =>
                /\ cache'[u] # 0
                /\ brain'[storageKey(u)] = Stored(pack(export(modelOf(u)')))
          /\ write' = Write(storageKey(u), FALSE) =>
                /\ cache'[u] # 0
                /\ brain' = brain
                /\ fault' = "none"]_vars

\* The write for u1 failed, the brain lags behind the trained model, and
\* the same event went on to schedule a reply.
C7_Witness ==
    /\ write = Write(storageKey("u1"), FALSE)
    /\ cache["u1"] # 0
    /\ modelOf("u1").table # EmptyTable
    /\ brain[storageKey("u1")] # Stored(pack(export(modelOf("u1"))))
    /\ heard.draw > FREQUENCY_THRESHOLD
    /\ timers # EmptyBag
    /\ fault = "none"

\* C8: training on a text of fewer than minWords tokens leaves the sender's
\* table as it was, for every model state: the instance is constructed with
\* MIN_WORDS, and the train branch of the handler, run on such a text in any
\* reachable state, ends with the table the lookup found.
C8_ShortTextLeavesTable ==
    \A u \in UserIds :
        /\ cache[u] # 0 => modelOf(u).minWords = MIN_WORDS
        /\ \A text \in Texts :
              Len(tokenize(text, CASE_SENSITIVE, STRIP_PUNCTUATION)) < MIN_WORDS =>
                 LET before == robotRetrieve(Working, u)
                     after == trainBranch(Working, u, text, TRUE)
                 IN  /\ after.fault = "none"
                     /\ deref(after, after.m).table = deref(before, before.m).table

\* With two words asked for, u1 was looked up, trained and stored, and its
\* table is empty: every text u1 said was too short.
C8_Witness ==
    /\ MIN_WORDS = 2
    /\ write = Write(storageKey("u1"), TRUE)
    /\ cache["u1"] # 0
    /\ modelOf("u1").table = EmptyTable

\* C9: a lookup that finds nothing, no bytes or bytes that are no snapshot
\* yields an empty model, caches it and raises nothing: the handler goes on.
C9_MalformedLoadsEmpty ==
    /\ fault = "none"
    /\ \A u \in UserIds :
          noSnapshot(u) =>
             /\ cache[u] # 0 => modelOf(u) = Markov(MIN_WORDS, CASE_SENSITIVE, STRIP_PUNCTUATION)
             /\ cache[u] = 0 =>
                   LET r == robotRetrieve(Working, u)
                   IN  /\ r.fault = "none"
                       /\ r.cache[u] # 0
                       /\ r.m = Ref(u, r.cache[u])
                       /\ deref(r, r.m) = Markov(MIN_WORDS, CASE_SENSITIVE, STRIP_PUNCTUATION)

\* u2 was looked up as the impersonated user while the brain held an object
\* cut short under its key, and the reply was scheduled.
C9_Witness ==
    /\ impersonating = "u2"
    /\ brain[storageKey("u2")] = Stored(<<Unit("map", 1, ""), Unit("str", 0, "table")>>)
    /\ cache["u2"] # 0
    /\ reads["u2"] = 1
    /\ timers # EmptyBag
    /\ fault = "none"

\* C10: a snapshot written by the store operation and loaded in a process
\* with an empty cache gives a model with that snapshot; unpack undoes pack.
\* A process that only responds never writes: what it has loaded is what an
\* earlier process stored.
C10_RoundTrip ==
    \A u \in UserIds :
        cache[u] # 0 =>
            LET S == export(modelOf(u))
                stored == robotStore(Working, u, modelOf(u), TRUE)
                fresh == [stored EXCEPT !.cache = [v \in UserIds |-> 0],
                                        !.heap = [v \in UserIds |-> <<>>]]
                restored == robotRetrieve(fresh, u)
            IN  /\ validSnapshot(S)
                /\ unpack(pack(S)) = S
                /\ restored.fault = "none"
                /\ export(deref(restored, restored.m)) = S
                /\ MODE = "respond" /\ ~noSnapshot(u) =>
                      S = unpack(brain[storageKey(u)].bytes)

\* A process that only responds holds a trained model of u1: it was stored
\* by an earlier process and restored by this one.
C10_Witness ==
    /\ MODE = "respond"
    /\ cache["u1"] # 0
    /\ modelOf("u1").table[<<"a", "a">>] = 1
    /\ timers = SetToBag({Sent("reply", <<"a", "a", "a">>)})

followsTransitions(table, w) ==
    \A i \in 1..Len(w) : table[<<contextAt(w, i), w[i]>>] >= 1

\* C12: every token respond emits is a successor recorded, with a count of
\* at least 1, for the context it was sampled from; the reply a message
\* gets scheduled is such an output of the impersonated user's model.
C12_GenerationFollowsTransitions ==
    /\ [](\A u \in UserIds :
            cache[u] # 0 =>
               \A w \in respond(modelOf(u), <<>>) :
                  followsTransitions(modelOf(u).table, w))
    /\ [][\A reply \in BagToSet(timers') :
             CopiesIn(reply, timers') > CopiesIn(reply, timers) =>
                /\ cache'[impersonating] # 0
                /\ followsTransitions(modelOf(impersonating)'.table, reply.text)]_vars

\* After the start of a sequence u2's model has seen "a" and "b"; the reply
\* scheduled took "b".
C12_Witness ==
    /\ impersonating = "u2"
    /\ cache["u2"] # 0
    /\ modelOf("u2").table[<<START, "a">>] = 1
    /\ modelOf("u2").table[<<START, "b">>] = 1
    /\ timers = SetToBag({Sent("reply", <<"b">>)})
    /\ heard.draw > FREQUENCY_THRESHOLD

\* The context generation is in after emitting w
lastContext(w) == IF w = <<>> THEN START ELSE w[Len(w)]

\* C13: for every model state, one whose transitions form a cycle included,
\* respond stops with an output of bounded length: it has at most
\* MaxOutputLength tokens, and fewer only where the context reached has no
\* successor.  Every reply scheduled or sent is within the bound.
C13_GenerationBounded ==
    /\ \A u \in UserIds :
          cache[u] # 0 =>
             /\ respond(modelOf(u), <<>>) # {}
             /\ \A w \in respond(modelOf(u), <<>>) :
                   /\ Len(w) <= MaxOutputLength
                   /\ Len(w) < MaxOutputLength =>
                         successors(modelOf(u).table, lastContext(w)) = {}
    /\ \A reply \in BagToSet(timers) : Len(reply.text) <= MaxOutputLength
    /\ sent.kind = "reply" => Len(sent.text) <= MaxOutputLength

\* In u1's model "a" follows "a": the reply sent ran round the cycle
\* until the maximum length stopped it.
C13_Witness ==
    /\ cache["u1"] # 0
    /\ modelOf("u1").table[<<"a", "a">>] >= 1
    /\ sent = Sent("reply", <<"a", "a", "a">>)

\* C14: an impersonate command whose name matches no user is reported to
\* the chat, raises no fault and leaves the impersonation state unchanged.
C14_UnknownNameReported ==
    [][Impersonate(<<>>) =>
          /\ sent' = Say(<<"I don't know anyone by the name of ">>)
          /\ fault' = "none"
          /\ impersonating' = impersonating]_vars

\* C14 as the code has it: the report is sent in the modes that respond and
\* nothing is sent in train mode; the command handler throws nothing, the
\* only error on the message being the hear listener's at line 114; the
\* impersonation state stays as it was.
C14_UnknownNameReportedWhenResponding ==
    [][Impersonate(<<>>) =>
          /\ sent' = IF shouldRespondMode
                     THEN Say(<<"I don't know anyone by the name of ">>)
                     ELSE Nothing
          /\ fault' = userRoom.fault
          /\ globalUser # Unbound => fault' = "none"
          /\ impersonating' = impersonating]_vars

\* u1 was being impersonated when a name matched nobody, and still is.
C14_Witness ==
    /\ impersonating = "u1"
    /\ sent = Say(<<"I don't know anyone by the name of ">>)
    /\ fault = "none"

\* C15: the per-word delay baseline is the value of
\* HUBOT_IMPERSONATE_RESPONSE_DELAY_PER_WORD when that is given and 600
\* when it is not, whatever HUBOT_IMPERSONATE_INIT_TIMEOUT is.
C15_DelayPerWordSetting ==
    RESPONSE_DELAY_PER_WORD =
        IF truthy(env.HUBOT_IMPERSONATE_RESPONSE_DELAY_PER_WORD)
        THEN parseInt(env.HUBOT_IMPERSONATE_RESPONSE_DELAY_PER_WORD.value)
        ELSE DefaultDelayPerWord

\* C17: start() runs exactly once and eventually: never twice, whether the
\* brain had data, or the 'loaded' event and the timeout come in either
\* order; once even if 'loaded' never comes; the listeners answer only
\* after it has run.
C17_StartsOnce ==
    /\ [](boot.started <= 1)
    /\ <>[](boot.started = 1)
    /\ [][sent' # Nothing => boot.started = 1 /\ boot'.started = 1]_vars

\* The 'loaded' event came first and start() ran; the timer of line 180 is
\* still to fire, and a command has been answered meanwhile.
C17_Witness ==
    /\ boot = [listening |-> FALSE, timer |-> TRUE, called |-> TRUE, started |-> 1]
    /\ sent = Say(<<"Nobody.">>)

\* C16: in a training mode a non-empty message not addressed to the robot
\* that comes from a restricted room is trained into the sender's model
\* and persisted, and no reply is scheduled for it.
C16_RestrictedRoomStillTrains ==
    [][\A userId \in UserIds, text \in Texts :
          /\ shouldTrain
          /\ textCondition(text)
          /\ Hear(userId, text, {TRUE})
          /\ heard'.room \in Range(RESTRICTED_AREAS)
          => /\ write' = Write(storageKey(userId), TRUE)
             /\ cache'[userId] # 0
             /\ timers' = timers]_vars

\* A step of the listeners of one process, not the start of a new one
sameProcess == ~ \E mode \in Modes : Restart(mode)

\* C18: in mode train nobody is ever impersonated: `impersonate` changes
\* nothing and sends nothing, no reply is scheduled or sent, `stop
\* impersonating` and `who are you impersonating` answer that nobody is.
\* In mode respond no event changes a model or writes to the brain.
C18_ModeSeparation ==
    /\ [](MODE = "train" =>
            /\ impersonating = Nobody
            /\ timers = EmptyBag
            /\ sent.kind # "reply")
    /\ [][MODE = "train" =>
            /\ \A users \in FuzzyResults :
                  Impersonate(users) =>
                     /\ sent' = Nothing
                     /\ UNCHANGED <<impersonating, cache, heap, brain, reads, timers>>
            /\ \A found \in BOOLEAN :
                  /\ StopImpersonating(found) =>
                        sent' = Say(<<"I wasn't impersonating anyone to begin with.">>)
                  /\ WhoAreYou(found) => sent' = Say(<<"Nobody.">>)]_vars
    /\ [][MODE = "respond" /\ sameProcess =>
            /\ write' = NoWrite
            /\ brain' = brain
            /\ \A u \in UserIds :
                  /\ cache[u] # 0 => cache'[u] = cache[u]
                  /\ \A i \in 1..Len(heap[u]) :
                        Len(heap'[u]) >= i /\ heap'[u][i] = heap[u][i]]_vars

\* In mode train u1 has been trained, and `stop impersonating` has just
\* been answered.
C18_Witness ==
    /\ MODE = "train"
    /\ cache["u1"] # 0
    /\ modelOf("u1").table # EmptyTable
    /\ sent = Say(<<"I wasn't impersonating anyone to begin with.">>)

\* What the handler of a message from userId has done when line 129 is
\* reached
afterTraining(userId, text) ==
    IF shouldTrain THEN trainBranch(Working, userId, text, TRUE) ELSE Working

\* C19: the train branch run for a sender reads, trains and writes the
\* sender's model under the sender's key and nothing else; the lookup of
\* line 130 that follows it leaves the brain, the write and every cached
\* model as the train branch left them, and touches no user but the
\* impersonated one; a message leaves every key of the brain but one
\* user's and every cached model but that user's as they were, the only
\* other user it looks up being the impersonated one, when a reply is
\* generated; and the reply is generated from the impersonated user's model.
C19_PerUserIsolation ==
    /\ [](\A userId \in UserIds, text \in Texts :
            textCondition(text) =>
               LET t == afterTraining(userId, text)
                   r == retrieveImpersonated(t, userId)
               IN  /\ t.fault = "none"
                   /\ shouldTrain =>
                         /\ t.write = Write(storageKey(userId), TRUE)
                         /\ t.m = Ref(userId, t.cache[userId])
                   /\ \A key \in Keys \ {storageKey(userId)} : t.brain[key] = brain[key]
                   /\ \A u \in UserIds \ {userId} :
                         /\ t.cache[u] = cache[u]
                         /\ t.heap[u] = heap[u]
                         /\ t.reads[u] = reads[u]
                   /\ shouldRespond =>
                         /\ r.fault = "none"
                         /\ r.m = Ref(impersonating, r.cache[impersonating])
                         /\ r.brain = t.brain
                         /\ r.write = t.write
                         /\ \A u \in UserIds :
                               /\ t.cache[u] # 0 \/ u # impersonating =>
                                     /\ r.cache[u] = t.cache[u]
                                     /\ r.heap[u] = t.heap[u]
                                     /\ r.reads[u] = t.reads[u]
                               /\ \A i \in 1..Len(t.heap[u]) : r.heap[u][i] = t.heap[u][i])
    /\ [][heard' # NotHeard =>
            /\ \E userId \in UserIds :
                  /\ write'.key \in {NoWrite.key, storageKey(userId)}
                  /\ \A key \in Keys \ {storageKey(userId)} : brain'[key] = brain[key]
                  /\ \A u \in UserIds \ {userId} :
                        /\ cache[u] # 0 => cache'[u] = cache[u] /\ modelOf(u)' = modelOf(u)
                        /\ cache'[u] # cache[u] \/ reads'[u] # reads[u] =>
                              u = impersonating /\ respondCondition(heard'.draw)
            /\ timers' # timers =>
                  /\ impersonating \in UserIds
                  /\ cache'[impersonating] # 0
                  /\ \E text \in Texts :
                        \E markovResponse \in respond(modelOf(impersonating)', text) :
                           timers' = timers (+) SetToBag({Sent("reply", markovResponse)})]_vars

\* u1 has just spoken while u2 is impersonated: u1's model was trained and
\* stored, and a reply from u2's model, a different one, is waiting.
C19_Witness ==
    /\ impersonating = "u2"
    /\ write = Write(storageKey("u1"), TRUE)
    /\ heard.draw > FREQUENCY_THRESHOLD
    /\ timers # EmptyBag
    /\ cache["u1"] # 0
    /\ cache["u2"] # 0
    /\ modelOf("u2").table # EmptyTable
    /\ modelOf("u1").table # modelOf("u2").table

\* C20: an `impersonate` whose first match is the robot itself leaves the
\* impersonation state as it was, nobody or the user impersonated before;
\* the other matches are never looked at: the command does what it does
\* with the first match alone.
C20_SelfImpersonationIgnored ==
    [][\A users \in FuzzyResults :
          Impersonate(users) =>
             /\ Len(users) > 0 /\ users[1] = BotUser => impersonating' = impersonating
             /\ Len(users) > 0 => Impersonate(<<users[1]>>)
             /\ Len(users) > 0 /\ shouldRespondMode /\ users[1] # BotUser =>
                   impersonating' = users[1].id]_vars

\* u1 is impersonated, and an `impersonate` matching the robot first and
\* u2 second has just been answered.
C20_Witness ==
    /\ impersonating = "u1"
    /\ sent = Say(<<"Impersonating yourself? How meta.">>)

=============================================================================
